---- MODULE Spec2Model ----
(***************************************************************************)
(* Model of src/nodes/image_interpolation.py:                              *)
(*   LoadFilmModel.load_model        (lines 43-54)                         *)
(*   FilmInterpolation.do_interpolation (lines 74-116)                     *)
(* The FILM library (interpolator.Interpolator and                         *)
(* util.interpolate_recursively_from_memory), the host's interrupt flag    *)
(* and the filesystem are the environment: what they do is a               *)
(* nondeterministic choice.                                                *)
(***************************************************************************)
EXTENDS Integers, Sequences, FiniteSets, TLC

\* ---------------------------------------------------------------- bounds
\* largest input batch
MaxN == 3
\* largest recursion depth "interpolate" (the node declares 1..50)
MaxDepth == 2
\* most frames the delegate's generator yields in one call
MaxYield == 6

VARIABLES
    \* ---- load_model
    fs,             \* filesystem under <models_dir>/FILM, per style
    film_model,     \* the style argument of load_model
    lpc,            \* position of the load_model call
    model_path,     \* local model_path
    log,            \* records written to log.error / log.info by load_model
    interp_calls,   \* paths handed to interpolator.Interpolator(...)
    \* ---- do_interpolation
    images,         \* argument: the input batch
    interpolate,    \* argument: the depth
    pc,             \* position of the do_interpolation call
    out_tensors,    \* local accumulator
    pbar,           \* comfy.utils.ProgressBar of the call: its total and the
                    \* sum of the update(1) calls made on it
    result,         \* what the call returned
    interrupt,      \* host-wide interrupt flag
    delegate_calls, \* calls of util.interpolate_recursively_from_memory
    yielded,        \* history: frames the delegate's generator has yielded
    polls,          \* history: calls of throw_exception_if_processing_interrupted
    delegate_raised,\* history: the delegate's generator raised
    raised_at       \* history: frames yielded / polls done when the flag rose

varsLoad == <<fs, film_model, lpc, model_path, log, interp_calls>>
varsRun == <<images, interpolate, pc, out_tensors, pbar, result, interrupt,
             delegate_calls, yielded, polls, delegate_raised, raised_at>>
vars == <<fs, film_model, lpc, model_path, log, interp_calls,
          images, interpolate, pc, out_tensors, pbar, result, interrupt,
          delegate_calls, yielded, polls, delegate_raised, raised_at>>

\* ================================================================ load_model

Styles == {"L1", "Style", "VGG"}

\* What exists under <models_dir>/FILM/<style>: the directory itself, the file
\* saved_model.pb in it, the subdirectory saved_model in it.  Nothing exists
\* inside a directory that does not exist.
FsConfigs ==
    {c \in [dir : BOOLEAN, marker : BOOLEAN, sub : BOOLEAN] :
        /\ c.marker => c.dir
        /\ c.sub => c.dir}

\* Path(folder_paths.models_dir) / "FILM" / film_model
BasePath(style) == <<"FILM", style>>

\* pathlib's "/" operator
Join(path, name) == Append(path, name)

NoPath == <<>>

\* Path.exists() against fs
Exists(path) ==
    IF Len(path) = 2 THEN fs[path[2]].dir
    ELSE IF Len(path) = 3 /\ path[3] = "saved_model.pb" THEN fs[path[2]].marker
    ELSE IF Len(path) = 3 /\ path[3] = "saved_model" THEN fs[path[2]].sub
    ELSE FALSE

LoadNotStarted ==
    /\ lpc = "not_started"
    /\ model_path = NoPath
    /\ log = <<>>
    /\ interp_calls = <<>>

InitLoad ==
    /\ fs \in [Styles -> FsConfigs]
    /\ film_model \in Styles
    /\ LoadNotStarted

\* lines 44-46 without the fallback to the saved_model subdirectory
ResolvePath_NoFallback ==
    BasePath(film_model)

\* lines 44-46
ResolvePath ==
    IF ~Exists(Join(BasePath(film_model), "saved_model.pb"))
    THEN Join(BasePath(film_model), "saved_model")
    ELSE BasePath(film_model)

LoadResolve ==
    /\ lpc = "not_started"
    /\ model_path' = ResolvePath
    /\ lpc' = "resolved"
    /\ UNCHANGED <<fs, film_model, log, interp_calls>>
    /\ UNCHANGED varsRun

\* lines 48-50: log.error and raise ValueError
LoadNotFound ==
    /\ lpc = "resolved"
    /\ ~Exists(model_path)
    /\ log' = Append(log, [level |-> "error", path |-> model_path])
    /\ lpc' = "not_found"
    /\ UNCHANGED <<fs, film_model, model_path, interp_calls>>
    /\ UNCHANGED varsRun

\* lines 48, 52: the check passes, log.info
LoadLog ==
    /\ lpc = "resolved"
    /\ Exists(model_path)
    /\ log' = Append(log, [level |-> "info", path |-> model_path])
    /\ lpc' = "logged"
    /\ UNCHANGED <<fs, film_model, model_path, interp_calls>>
    /\ UNCHANGED varsRun

\* line 54 reached without the check and the log of lines 48-52
LoadInstantiate_Unchecked ==
    /\ lpc = "resolved"
    /\ interp_calls' = Append(interp_calls, model_path)
    /\ \E ok \in BOOLEAN : lpc' = IF ok THEN "loaded" ELSE "delegate_failed"
    /\ UNCHANGED <<fs, film_model, model_path, log>>
    /\ UNCHANGED varsRun

\* line 54: interpolator.Interpolator(model_path.as_posix(), None) returns a
\* handle or raises
LoadInstantiate ==
    /\ lpc = "logged"
    /\ interp_calls' = Append(interp_calls, model_path)
    /\ \E ok \in BOOLEAN : lpc' = IF ok THEN "loaded" ELSE "delegate_failed"
    /\ UNCHANGED <<fs, film_model, model_path, log>>
    /\ UNCHANGED varsRun

LoadTerminal == {"not_found", "loaded", "delegate_failed"}

\* ========================================================== do_interpolation

\* images[i] of an input batch of n frames
InputFrame(i) ==
    [kind |-> "tensor", src |-> "input", id |-> i, shape |-> "hwc"]

ImageBatch(n) == [i \in 1..n |-> InputFrame(i)]

\* frames the delegate may yield: numpy arrays or tensors, told apart by id,
\* of the input's shape or of another one
DelegateFrames ==
    {[kind |-> "ndarray", src |-> "delegate", id |-> 1, shape |-> "hwc"],
     [kind |-> "tensor", src |-> "delegate", id |-> 2, shape |-> "hwc"],
     [kind |-> "ndarray", src |-> "delegate", id |-> 3, shape |-> "other"]}

\* line 106: torch.from_numpy(frame) if isinstance(frame, np.ndarray) else frame
ToTensor(frame) ==
    IF frame.kind = "ndarray"
    THEN [frame EXCEPT !.kind = "tensor"]
    ELSE frame

RECURSIVE Pow2(_)
Pow2(e) == IF e = 0 THEN 1 ELSE 2 * Pow2(e - 1)

\* line 94 counting frames instead of adjacent pairs
NumFrames_AllFrames(n, d) == n * (Pow2(d) - 1)

\* line 94
NumFrames(n, d) == (n - 1) * (Pow2(d) - 1)

NoPbar == [created |-> FALSE, total |-> 0, current |-> 0]
NoResult == [returned |-> FALSE, batch |-> <<>>]
NeverRaised == [frames |-> -1, polls |-> -1]

RunNotStarted ==
    /\ pc = "not_started"
    /\ out_tensors = <<>>
    /\ pbar = NoPbar
    /\ result = NoResult
    /\ delegate_calls = 0
    /\ yielded = <<>>
    /\ polls = 0
    /\ delegate_raised = FALSE

InitRun ==
    /\ images \in {ImageBatch(n) : n \in 0..MaxN}
    /\ interpolate \in 1..MaxDepth
    /\ interrupt \in BOOLEAN
    /\ raised_at = IF interrupt THEN [frames |-> 0, polls |-> 0] ELSE NeverRaised
    /\ RunNotStarted

\* the load_model call is not in progress
LoadIdle ==
    /\ fs = [s \in Styles |-> [dir |-> TRUE, marker |-> TRUE, sub |-> FALSE]]
    /\ film_model = "Style"
    /\ lpc = "loaded"
    /\ model_path = BasePath("Style")
    /\ log = <<[level |-> "info", path |-> BasePath("Style")]>>
    /\ interp_calls = <<BasePath("Style")>>

\* the do_interpolation call is not in progress
RunIdle ==
    /\ images = ImageBatch(0)
    /\ interpolate = 2
    /\ interrupt = FALSE
    /\ raised_at = NeverRaised
    /\ RunNotStarted

\* lines 80-83: empty batch, return (images,)
ReturnEmpty ==
    /\ pc = "not_started"
    /\ Len(images) = 0
    /\ result' = [returned |-> TRUE, batch |-> images]
    /\ pc' = "completed"
    /\ UNCHANGED <<images, interpolate, out_tensors, pbar, interrupt,
                   delegate_calls, yielded, polls, delegate_raised, raised_at>>
    /\ UNCHANGED varsLoad

\* lines 94-104 without the early return of lines 82-83
EnterLoop_NoEmptyCheck ==
    /\ pc = "not_started"
    /\ out_tensors' = <<>>
    /\ pbar' = [created |-> TRUE,
                total |-> (Len(images) - 1) * (2 ^ interpolate - 1),
                current |-> 0]
    /\ delegate_calls' = delegate_calls + 1
    /\ pc' = "loop"
    /\ UNCHANGED <<images, interpolate, result, interrupt, yielded, polls,
                   delegate_raised, raised_at>>
    /\ UNCHANGED varsLoad

\* lines 94-104: num_frames, out_tensors = [], ProgressBar(num_frames), the
\* call that creates the delegate's generator
EnterLoop ==
    /\ pc = "not_started"
    /\ Len(images) # 0
    /\ out_tensors' = <<>>
    /\ pbar' = [created |-> TRUE,
                total |-> NumFrames(Len(images), interpolate),
                current |-> 0]
    /\ delegate_calls' = delegate_calls + 1
    /\ pc' = "loop"
    /\ UNCHANGED <<images, interpolate, result, interrupt, yielded, polls,
                   delegate_raised, raised_at>>
    /\ UNCHANGED varsLoad

\* lines 105-107 with the frame put in front of the accumulator
AppendFrame_Front(acc, frame) == <<ToTensor(frame)>> \o acc

\* lines 102-107: the generator yields a frame, the body appends it
AppendFrame(acc, frame) == Append(acc, ToTensor(frame))

YieldFrame ==
    /\ pc = "loop"
    /\ Len(yielded) < MaxYield
    /\ \E frame \in DelegateFrames :
        /\ yielded' = Append(yielded, frame)
        /\ out_tensors' = AppendFrame(out_tensors, frame)
    /\ pc' = "poll"
    /\ UNCHANGED <<images, interpolate, pbar, result, interrupt,
                   delegate_calls, polls, delegate_raised, raised_at>>
    /\ UNCHANGED varsLoad

\* line 102 with the delegate's exception swallowed: the loop just ends
DelegateRaise_Swallowed ==
    /\ pc = "loop"
    /\ delegate_raised' = TRUE
    /\ pc' = "assemble"
    /\ UNCHANGED <<images, interpolate, out_tensors, pbar, result, interrupt,
                   delegate_calls, yielded, polls, raised_at>>
    /\ UNCHANGED varsLoad

\* line 102: the generator raises; the exception leaves do_interpolation
DelegateRaise ==
    /\ pc = "loop"
    /\ delegate_raised' = TRUE
    /\ out_tensors' = <<>>
    /\ pc' = "failed"
    /\ UNCHANGED <<images, interpolate, pbar, result, interrupt,
                   delegate_calls, yielded, polls, raised_at>>
    /\ UNCHANGED varsLoad

\* line 102: the generator is exhausted
LoopEnd ==
    /\ pc = "loop"
    /\ pc' = "assemble"
    /\ UNCHANGED <<images, interpolate, out_tensors, pbar, result, interrupt,
                   delegate_calls, yielded, polls, delegate_raised, raised_at>>
    /\ UNCHANGED varsLoad

\* line 108 leaving the loop (break) instead of raising
Poll_Break ==
    /\ pc = "poll"
    /\ polls' = polls + 1
    /\ pc' = IF interrupt THEN "assemble" ELSE "update"
    /\ UNCHANGED <<images, interpolate, out_tensors, pbar, result, interrupt,
                   delegate_calls, yielded, delegate_raised, raised_at>>
    /\ UNCHANGED varsLoad

\* line 108 polling on every other frame only
Poll_EveryOther ==
    /\ pc = "poll"
    /\ IF Len(out_tensors) % 2 = 0
       THEN /\ polls' = polls + 1
            /\ IF interrupt
               THEN /\ pc' = "cancelled"
                    /\ out_tensors' = <<>>
               ELSE /\ pc' = "update"
                    /\ UNCHANGED out_tensors
       ELSE /\ pc' = "update"
            /\ UNCHANGED <<polls, out_tensors>>
    /\ UNCHANGED <<images, interpolate, pbar, result, interrupt,
                   delegate_calls, yielded, delegate_raised, raised_at>>
    /\ UNCHANGED varsLoad

\* line 108: model_management.throw_exception_if_processing_interrupted()
Poll ==
    /\ pc = "poll"
    /\ polls' = polls + 1
    /\ IF interrupt
       THEN /\ pc' = "cancelled"
            /\ out_tensors' = <<>>
       ELSE /\ pc' = "update"
            /\ UNCHANGED out_tensors
    /\ UNCHANGED <<images, interpolate, pbar, result, interrupt,
                   delegate_calls, yielded, delegate_raised, raised_at>>
    /\ UNCHANGED varsLoad

\* line 109 with pbar.update(2)
PbarUpdate_Two ==
    /\ pc = "update"
    /\ pbar' = [pbar EXCEPT !.current = @ + 2]
    /\ pc' = "loop"
    /\ UNCHANGED <<images, interpolate, out_tensors, result, interrupt,
                   delegate_calls, yielded, polls, delegate_raised, raised_at>>
    /\ UNCHANGED varsLoad

\* line 109: pbar.update(1)
PbarUpdate ==
    /\ pc = "update"
    /\ pbar' = [pbar EXCEPT !.current = @ + 1]
    /\ pc' = "loop"
    /\ UNCHANGED <<images, interpolate, out_tensors, result, interrupt,
                   delegate_calls, yielded, polls, delegate_raised, raised_at>>
    /\ UNCHANGED varsLoad

\* a concatenation that accepts an empty list
CatFails_EmptyOk(tensors) ==
    \E i, j \in 1..Len(tensors) : tensors[i].shape # tensors[j].shape

\* line 111: torch.cat([tens.unsqueeze(0) for tens in out_tensors], dim=0);
\* torch.cat raises on an empty list and on tensors of different shapes
CatFails(tensors) ==
    \/ Len(tensors) = 0
    \/ \E i, j \in 1..Len(tensors) : tensors[i].shape # tensors[j].shape

Cat(tensors) == tensors

\* lines 111-116
Assemble ==
    /\ pc = "assemble"
    /\ IF CatFails(out_tensors)
       THEN /\ pc' = "failed"
            /\ out_tensors' = <<>>
            /\ UNCHANGED result
       ELSE /\ pc' = "completed"
            /\ out_tensors' = Cat(out_tensors)
            /\ result' = [returned |-> TRUE, batch |-> Cat(out_tensors)]
    /\ UNCHANGED <<images, interpolate, pbar, interrupt, delegate_calls,
                   yielded, polls, delegate_raised, raised_at>>
    /\ UNCHANGED varsLoad

Terminal == {"completed", "cancelled", "failed"}

\* the host raises its interrupt flag (any thread, any time) before the call
\* has ended; the flag stays raised
RaiseInterrupt ==
    /\ pc \notin Terminal
    /\ ~interrupt
    /\ interrupt' = TRUE
    /\ raised_at' = [frames |-> Len(yielded), polls |-> polls]
    /\ UNCHANGED <<images, interpolate, pc, out_tensors, pbar, result,
                   delegate_calls, yielded, polls, delegate_raised>>
    /\ UNCHANGED varsLoad

\* one step of the do_interpolation call itself
RunStep ==
    \/ ReturnEmpty
    \/ EnterLoop
    \/ YieldFrame
    \/ DelegateRaise
    \/ LoopEnd
    \/ Poll
    \/ PbarUpdate
    \/ Assemble

\* ------------------------------------------------------------ specifications

\* one do_interpolation call
Init == InitRun /\ LoadIdle

Next ==
    \/ ReturnEmpty
    \/ EnterLoop
    \/ YieldFrame
    \/ DelegateRaise
    \/ LoopEnd
    \/ Poll
    \/ PbarUpdate
    \/ Assemble
    \/ RaiseInterrupt

Spec == Init /\ [][Next]_vars

\* the call runs in the host's worker thread, which keeps executing it
FairSpec == Spec /\ WF_vars(RunStep)

\* one load_model call
LoadInit == InitLoad /\ RunIdle

LoadNext ==
    \/ LoadResolve
    \/ LoadNotFound
    \/ LoadLog
    \/ LoadInstantiate

LoadSpec == LoadInit /\ [][LoadNext]_vars

\* ==================================================================== claims

\* the two candidate paths of the style being loaded
CandidateDir == BasePath(film_model)
CandidateSub == Join(BasePath(film_model), "saved_model")

\* (n-1) * (2^d - 1) for the call's arguments
ExpectedTotal == (Len(images) - 1) * (2 ^ interpolate - 1)

\* the flag rose when at least one frame had been yielded
RaisedAfterAFrame == raised_at.frames >= 1

\* C1 as stated: on a non-empty batch, whenever the interrupt flag rose after
\* the k-th frame (k >= 1) had been produced, the call ends cancelled and
\* returns no batch.
C1_AnyRaiseCancels ==
    (pc \in Terminal /\ Len(images) >= 1 /\ RaisedAfterAFrame)
        => (pc = "cancelled" /\ ~result.returned)

\* C1 amended: on a non-empty batch, if the interrupt flag rose after the k-th
\* frame (k >= 1) had been produced and before the poll that follows the last
\* frame the delegate yields (fewer polls done than frames finally yielded),
\* the call ends cancelled, returns no batch and the accumulator is dropped.
C1_RaiseBeforeLastPollCancels ==
    (/\ pc \in Terminal
     /\ Len(images) >= 1
     /\ RaisedAfterAFrame
     /\ raised_at.polls < Len(yielded))
        => (pc = "cancelled" /\ ~result.returned /\ out_tensors = <<>>)

C1_Witness ==
    /\ pc = "cancelled"
    /\ raised_at = [frames |-> 2, polls |-> 2]
    /\ Len(yielded) = 3

\* C2: a call on n >= 2 frames that completes after the delegate yielded
\* (n-1)*(2^d-1) frames returns a batch of exactly that length, and that is
\* the total the progress bar was created with.
C2_OutputLength ==
    (pc = "completed" /\ Len(images) >= 2 /\ Len(yielded) = ExpectedTotal)
        => (/\ result.returned
            /\ Len(result.batch) = ExpectedTotal
            /\ pbar.created
            /\ pbar.total = ExpectedTotal)

C2_Witness ==
    /\ pc = "completed"
    /\ Len(images) = 3
    /\ interpolate = 2
    /\ Len(yielded) = 6
    /\ Len(result.batch) = 6

\* C3: a call on a non-empty batch that returns normally returns the frames
\* the delegate yielded, as tensors, element for element in yield order, and
\* none of the input frames.
C3_OutputIsYieldSequence ==
    (pc = "completed" /\ Len(images) >= 1)
        => (/\ result.returned
            /\ Len(result.batch) = Len(yielded)
            /\ \A i \in 1..Len(yielded) :
                /\ result.batch[i].kind = "tensor"
                /\ result.batch[i].id = yielded[i].id
                /\ result.batch[i].src = yielded[i].src
                /\ result.batch[i].shape = yielded[i].shape
            /\ \A i \in 1..Len(result.batch) : result.batch[i].src # "input")

C3_Witness ==
    /\ pc = "completed"
    /\ Len(images) >= 1
    /\ Len(result.batch) = 3
    /\ yielded[1].kind = "ndarray"
    /\ yielded[1].id # yielded[2].id
    /\ yielded[3].id = yielded[1].id

\* C4 as stated: when a call that created a progress bar has ended, the
\* counter equals the number of frames the delegate produced.
C4_FinalCountIsFramesProduced ==
    (pc \in Terminal /\ pbar.created) => pbar.current = Len(yielded)

\* the frames counted so far: every frame yielded, except the one whose poll
\* has not passed (yet, or ever)
CountedFrames ==
    IF pc \in {"poll", "update", "cancelled"}
    THEN Len(yielded) - 1
    ELSE Len(yielded)

\* C4 amended: the counter starts at 0, changes only by increments of exactly
\* 1, counts every yielded frame whose poll has passed, and at the end of the
\* call equals the number of frames the delegate produced, except on a
\* cancelled call, where it is one less.
C4_ProgressCounts ==
    /\ [](pbar.created => pbar.current = CountedFrames)
    /\ [][/\ (~pbar.created /\ pbar'.created) => pbar'.current = 0
          /\ (pbar.created /\ pbar' # pbar)
                => (/\ pbar'.created
                    /\ pbar'.total = pbar.total
                    /\ pbar'.current = pbar.current + 1)]_vars

C4_Witness ==
    /\ pc = "cancelled"
    /\ Len(yielded) = 3
    /\ pbar.current = 2

\* C5: on an empty batch the call only returns the batch it was given: the
\* delegate is never called, no progress bar is created, the interrupt flag
\* is never polled, whatever the depth and the flag.
C5_EmptyBatchNoOp ==
    Len(images) = 0
        => (/\ pc \in {"not_started", "completed"}
            /\ delegate_calls = 0
            /\ yielded = <<>>
            /\ ~pbar.created
            /\ pbar.current = 0
            /\ polls = 0
            /\ out_tensors = <<>>
            /\ pc = "completed" => result = [returned |-> TRUE, batch |-> images])

C5_Witness ==
    /\ Len(images) = 0
    /\ pc = "completed"
    /\ interrupt
    /\ interpolate = MaxDepth

\* C6 as stated: load_model ends with the not-found error exactly when
\* neither candidate path exists.
C6_NotFoundIffNeitherExists ==
    lpc \in LoadTerminal
        => (lpc = "not_found" <=> (~Exists(CandidateDir) /\ ~Exists(CandidateSub)))

\* C6 amended: load_model ends with the not-found error exactly when the
\* style directory has no top-level saved_model.pb and its saved_model
\* subdirectory does not exist (so also when the style directory exists
\* without either); in particular it does when neither candidate path
\* exists.  In every other case the delegate is instantiated, and a failure
\* is the delegate's.
C6_NotFoundIffNoMarkerNoSub ==
    lpc \in LoadTerminal
        => (/\ lpc = "not_found"
                <=> (~fs[film_model].marker /\ ~Exists(CandidateSub))
            /\ (~Exists(CandidateDir) /\ ~Exists(CandidateSub))
                => lpc = "not_found"
            /\ lpc # "not_found" => Len(interp_calls) = 1)

C6_Witness ==
    /\ lpc = "not_found"
    /\ Exists(CandidateDir)
    /\ film_model = "VGG"

\* C7: the resolved path is the style directory exactly when it holds
\* saved_model.pb, else its saved_model subdirectory; the delegate is
\* instantiated at most once, with the resolved path, after the existence
\* check passed and the path was logged, and never on a not-found call.
C7_ResolvedPath ==
    /\ lpc # "not_started"
        => (/\ model_path = CandidateDir <=> fs[film_model].marker
            /\ model_path # CandidateDir => model_path = CandidateSub)
    /\ Len(interp_calls) <= 1
    /\ Len(interp_calls) = 1
        => (/\ interp_calls[1] = model_path
            /\ Exists(model_path)
            /\ log = <<[level |-> "info", path |-> model_path]>>
            /\ lpc \in {"loaded", "delegate_failed"})
    /\ lpc = "not_found" => interp_calls = <<>>

C7_Witness ==
    /\ lpc = "loaded"
    /\ model_path = CandidateSub
    /\ interp_calls = <<CandidateSub>>

\* C8: the flag is polled once per frame consumed, after the frame was
\* appended; it is observed only by a poll, so never before a frame was
\* yielded, and a poll that runs with the flag raised always observes it: no
\* poll passes once the flag is up, the first one after it cancels the call.
C8_PolledAtYieldBoundaries ==
    /\ [](/\ polls = (IF pc = "poll" THEN Len(yielded) - 1 ELSE Len(yielded))
          /\ (interrupt /\ pc \notin Terminal) => polls = raised_at.polls
          /\ pc = "cancelled"
                => (/\ Len(yielded) >= 1
                    /\ interrupt
                    /\ raised_at.frames <= Len(yielded)
                    /\ polls = raised_at.polls + 1))
    /\ [][/\ polls' # polls
                => (/\ pc = "poll"
                    /\ polls' = polls + 1
                    /\ Len(out_tensors) = Len(yielded)
                    /\ Len(yielded) = polls')
          /\ (pc' = "cancelled" /\ pc # "cancelled")
                => (pc = "poll" /\ interrupt /\ polls' = polls + 1)
          /\ (pc = "poll" /\ interrupt /\ pc' # pc) => pc' = "cancelled"]_vars

C8_Witness ==
    /\ pc = "cancelled"
    /\ raised_at = [frames |-> 0, polls |-> 0]
    /\ Len(yielded) = 1

\* C9: a call goes from not-started through the loop to exactly one of
\* completed, cancelled, failed and stays there: nothing of the call changes
\* afterwards and it never starts again; a batch is returned exactly by a
\* completed call, a delegate failure ends the call failed, and every call
\* ends.
C9_Lifecycle ==
    /\ [][(pc \in Terminal)
             => (UNCHANGED <<pc, out_tensors, pbar, result, delegate_calls,
                             yielded, polls>>)]_vars
    /\ [][pc' = "not_started" => pc = "not_started"]_vars
    /\ [](result.returned <=> pc = "completed")
    /\ [](delegate_raised => (pc = "failed" /\ ~result.returned))
    /\ <>(pc \in Terminal)

C9_Witness ==
    /\ pc = "failed"
    /\ delegate_raised
    /\ Len(yielded) = 2

\* C10: a call on a non-empty batch never completes with an empty batch: when
\* the delegate yields no frame the call ends failed, and every batch returned
\* holds at least one frame, all of them the delegate's.
C10_NoEmptyOutput ==
    /\ (pc = "completed" /\ Len(images) >= 1)
        => (/\ Len(result.batch) >= 1
            /\ \A i \in 1..Len(result.batch) : result.batch[i].src = "delegate")
    /\ (pc \in Terminal /\ Len(images) >= 1 /\ yielded = <<>>)
        => (pc = "failed" /\ ~result.returned)

C10_Witness ==
    /\ pc = "failed"
    /\ Len(images) = 1
    /\ yielded = <<>>
    /\ ~delegate_raised

====
